---- MODULE Spec2Model ----
(***************************************************************************)
(* Model of addon/components/mobile-menu.js (ember-mobile-menu): the       *)
(* drawer's position, its drag flags, the two ember-concurrency tasks      *)
(* `open` and `close` and the Tweens they start.                           *)
(*                                                                         *)
(* Numbers.  Pixels are integers.  Velocities are in tenths of px/ms, so   *)
(* the default triggerVelocity 0.3 is 3.  A comparison with width / 2 is   *)
(* written with both sides doubled.  A Tween's progress is k / NumFrames   *)
(* for its k-th frame; the product with a pixel value is rounded down.     *)
(*                                                                         *)
(* Time.  Every Tween has the same duration (300 ms) and is driven by the  *)
(* frame clock, so Tweens advance together, an older Tween is never behind *)
(* a younger one, and within one frame they write in creation order.       *)
(*                                                                         *)
(* Tasks.  `open` and `close` are two separate restartable tasks:          *)
(* perform() cancels the running instance of the SAME task only.  A        *)
(* cancelled instance is never resumed after its yield, so its callback    *)
(* does not fire; the Tween it created is stopped by nobody (the task has  *)
(* no finally block and never calls a stop), so it keeps writing.          *)
(*                                                                         *)
(* embed keeps its default (false), so the handlers read the event as      *)
(* delivered and normalizeCoordinates is not called.                       *)
(*                                                                         *)
(* Width.  _width is a computed property cached by Ember; it is computed   *)
(* once from the viewport width at construction.  Spec keeps the viewport  *)
(* fixed, SpecResize lets it change.                                       *)
(*                                                                         *)
(* Bookkeeping.  history, last and twin record what happened and do not    *)
(* influence the component: history keeps, per call, whether it was open() *)
(* and whether it restarted a running open task; last keeps the last call  *)
(* with its event, or the writes and callbacks of the last frame; twin is  *)
(* the same drawer on the other anchor, fed the mirrored samples.          *)
(***************************************************************************)
EXTENDS Integers, Sequences, FiniteSets, TLC

VARIABLES
    type,          \* 'left' or 'right'
    windowWidth,   \* what getWindowWidth() returns now
    _width,        \* the cached value of the computed property _width
    position,
    isDragging,
    dxCorrection,
    tweens,        \* the Tweens in flight, oldest first
    onOpenCalls,   \* number of onOpen invocations so far
    onCloseCalls,  \* number of onClose invocations so far
    history,       \* per call made so far: was it open(), restarting open
    last,          \* the last step taken: the call and its event, or the frame
    twin           \* a drawer on the other anchor, fed the mirrored samples

vars == <<type, windowWidth, _width, position, isDragging, dxCorrection,
          tweens, onOpenCalls, onCloseCalls, history, last, twin>>

\* ---------------------------------------------------------------- bounds
MaxOps == 3
NumFrames == 2
WindowWidths == {0, 200, 400}
DistanceXs == {-200, -100, 100, 200}
VelocityXs == {-5, -3, 0, 3, 5}
PointerXs == {50, 250}

\* ------------------------------------------------------- configuration
width == 85
maxWidth == 300
triggerVelocity == 3
embed == FALSE
isFastBoot == FALSE

\* --------------------------------------------------------------- helpers
Min(a, b) == IF a < b THEN a ELSE b
Max(a, b) == IF a > b THEN a ELSE b

isLeft == type = "left"
isRight == type = "right"

getWindowWidth == windowWidth

computeWidth(ww) ==
    IF isFastBoot THEN maxWidth
    ELSE Min((width * ww) \div 100, maxWidth)

isOpen == ~isDragging /\ position = _width

\* Math.abs(position) / _width, as the quotient num / den when it is a
\* number; a division by 0 gives NaN for 0 / 0 and Infinity otherwise.
abs(n) == IF n < 0 THEN -n ELSE n

relativePosition ==
    [kind |-> IF _width # 0 THEN "number"
              ELSE IF position = 0 THEN "NaN" ELSE "Infinity",
     num |-> abs(position),
     den |-> _width]

taskIsRunning(tws, t) ==
    \E i \in 1..Len(tws) : tws[i].task = t /\ tws[i].live

openIsRunning == taskIsRunning(tweens, "open")
closeIsRunning == taskIsRunning(tweens, "close")
isTransitioning == openIsRunning \/ closeIsRunning

\* The fields of e.current a handler reads; a field it does not read is 0.
NoEvent == [distanceX |-> 0, velocityX |-> 0, x |-> 0]
PanOpenEvents == [distanceX : DistanceXs, velocityX : {0}, x : {0}]
PanEndEvents == [distanceX : DistanceXs, velocityX : VelocityXs, x : {0}]
DidPanEvents == [distanceX : DistanceXs, velocityX : {0}, x : PointerXs]

\* ----------------------------------------------------------------- tasks
\* A task that is not restartable: perform() cancels nothing.
cancelNothing(tws, t) == tws

\* restartable(): perform() cancels the running instance of the same task.
cancelTask(tws, t) ==
    [i \in 1..Len(tws) |->
        IF tws[i].task = t THEN [tws[i] EXCEPT !.live = FALSE] ELSE tws[i]]

\* An open Tween that always animates from the closed position.
openValueFromClosed(startPos, diff, k) ==
    ((startPos + diff) * k) \div NumFrames

\* The value a Tween writes at its k-th frame (progress k / NumFrames).
openValue(startPos, diff, k) == startPos + (diff * k) \div NumFrames
\* A close Tween whose progress runs the wrong way.
closeValueReversed(startPos, k) == (startPos * k) \div NumFrames

closeValue(startPos, k) == (startPos * (NumFrames - k)) \div NumFrames

tweenValue(tw, k) ==
    IF tw.task = "open" THEN openValue(tw.startPos, tw.diff, k)
    ELSE closeValue(tw.startPos, k)

\* open.perform(): runs the task up to its yield.
performOpen(tws, id) ==
    Append(cancelTask(tws, "open"),
           [id |-> id, task |-> "open", startPos |-> position,
            diff |-> _width - position, k |-> 0, live |-> TRUE])

\* A close that always animates from the fully open position.
performCloseFromOpen(tws, id) ==
    Append(cancelTask(tws, "close"),
           [id |-> id, task |-> "close", startPos |-> _width,
            diff |-> 0, k |-> 0, live |-> TRUE])

\* close.perform(): runs the task up to its yield.
performClose(tws, id) ==
    Append(cancelTask(tws, "close"),
           [id |-> id, task |-> "close", startPos |-> position,
            diff |-> 0, k |-> 0, live |-> TRUE])

nextId == Len(history) + 1

\* ------------------------------------------------------------------ twin
\* A second drawer with the same configuration in the same viewport, anchored
\* on the other side.  Every call made into the component is made into the
\* twin with the mirrored event, and every frame is a frame of the twin.
twinIsLeft == ~isLeft

mirrored(e) ==
    [distanceX |-> -e.distanceX, velocityX |-> -e.velocityX,
     x |-> getWindowWidth - e.x]

twinDirectional(d) == IF twinIsLeft THEN d ELSE -d

twinPointerFromEdge(x) == IF twinIsLeft THEN x ELSE getWindowWidth - x

twinPerform(t, task, id) ==
    [t EXCEPT !.tweens =
        Append(cancelTask(t.tweens, task),
               [id |-> id, task |-> task, startPos |-> t.position,
                diff |-> IF task = "open" THEN _width - t.position ELSE 0,
                k |-> 0, live |-> TRUE])]

twinPanOpen(t, e) ==
    [t EXCEPT !.isDragging = TRUE,
              !.position = Min(Max(twinDirectional(e.distanceX), 0), _width)]

twinPanOpenEnd(t, e) ==
    LET dx == twinDirectional(e.distanceX)
        vx == twinDirectional(e.velocityX)
        dropped == [t EXCEPT !.isDragging = FALSE]
    IN  IF vx > triggerVelocity \/ 2 * dx > _width
        THEN twinPerform(dropped, "open", nextId)
        ELSE twinPerform(dropped, "close", nextId)

twinDidPan(t, e) ==
    LET dx == twinDirectional(e.distanceX)
        cx == twinPointerFromEdge(e.x)
        w == _width
        begin == ~t.isDragging /\ t.position = w /\ cx < w
        begun == IF begin
                 THEN [t EXCEPT !.isDragging = TRUE, !.dxCorrection = dx]
                 ELSE t
        target == dx - begun.dxCorrection
    IN  IF begun.isDragging /\ cx < w
        THEN [begun EXCEPT !.position =
                 w + (IF target > 0 THEN 0
                      ELSE IF target < -1 * w THEN -1 * w ELSE target)]
        ELSE begun

twinDidPanEnd(t, e) ==
    IF t.isDragging
    THEN LET dx == twinDirectional(e.distanceX)
             vx == twinDirectional(e.velocityX)
             dropped == [t EXCEPT !.isDragging = FALSE, !.dxCorrection = 0]
         IN  IF vx < -1 * triggerVelocity \/ 2 * (-1 * dx) > _width
             THEN twinPerform(dropped, "close", nextId)
             ELSE twinPerform(dropped, "open", nextId)
    ELSE t

twinCall(t, op, e) ==
    CASE op = "open" -> twinPerform(t, "open", nextId)
      [] op = "close" -> twinPerform(t, "close", nextId)
      [] op = "panOpen" -> twinPanOpen(t, e)
      [] op = "panOpenEnd" -> twinPanOpenEnd(t, e)
      [] op = "didPan" -> twinDidPan(t, e)
      [] op = "didPanEnd" -> twinDidPanEnd(t, e)
      [] OTHER -> t

record(op, e) ==
    /\ history' = Append(history,
           [op |-> IF op = "open" THEN "open" ELSE "other",
            during |-> op = "open" /\ openIsRunning])
    /\ last' = [op |-> op, e |-> e, wrote |-> <<>>, fired |-> {}]
    /\ twin' = twinCall(twin, op, mirrored(e))

\* --------------------------------------------------------------- actions
actionsOpen ==
    /\ Len(history) < MaxOps
    /\ tweens' = performOpen(tweens, nextId)
    /\ record("open", NoEvent)
    /\ UNCHANGED <<type, windowWidth, _width, position, isDragging,
                   dxCorrection, onOpenCalls, onCloseCalls>>

actionsClose ==
    /\ Len(history) < MaxOps
    /\ tweens' = performClose(tweens, nextId)
    /\ record("close", NoEvent)
    /\ UNCHANGED <<type, windowWidth, _width, position, isDragging,
                   dxCorrection, onOpenCalls, onCloseCalls>>

\* The sample taken as it comes, whatever the anchor.
undirected(d) == d

directional(d) == IF isLeft THEN d ELSE -d

\* The offset without its upper limit.
panOpenTargetNoUpperLimit(dx, w) == Max(dx, 0)

panOpenTarget(dx, w) == Min(Max(dx, 0), w)

panOpen(e) ==
    /\ Len(history) < MaxOps
    /\ isDragging' = TRUE
    /\ position' = panOpenTarget(directional(e.distanceX), _width)
    /\ record("panOpen", e)
    /\ UNCHANGED <<type, windowWidth, _width, dxCorrection, tweens,
                   onOpenCalls, onCloseCalls>>

\* The open-channel decision with the threshold velocity included.
panOpenEndOpensAtThreshold(dx, vx, w) == vx >= triggerVelocity \/ 2 * dx > w

\* vx > triggerVelocity || dx > width / 2
panOpenEndOpens(dx, vx, w) == vx > triggerVelocity \/ 2 * dx > w

panOpenEnd(e) ==
    /\ Len(history) < MaxOps
    /\ isDragging' = FALSE
    /\ LET dx == directional(e.distanceX)
           vx == directional(e.velocityX)
       IN  tweens' = IF panOpenEndOpens(dx, vx, _width)
                     THEN performOpen(tweens, nextId)
                     ELSE performClose(tweens, nextId)
    /\ record("panOpenEnd", e)
    /\ UNCHANGED <<type, windowWidth, _width, position, dxCorrection,
                   onOpenCalls, onCloseCalls>>

\* The pointer coordinate measured from the left edge for both anchors.
pointerFromLeft(x) == x

\* the pointer coordinate measured from the anchored edge
pointerFromEdge(x) == IF isLeft THEN x ELSE getWindowWidth - x

\* enforce limits on the offset [-width, 0]
didPanTarget(t, w) == IF t > 0 THEN 0 ELSE IF t < -1 * w THEN -1 * w ELSE t

\* The target without the correction set at drag recognition.
uncorrectedTarget(dx, correction) == dx

\* correct targetPosition with dxCorrection set earlier
correctedTarget(dx, correction) == dx - correction

didPan(e) ==
    /\ Len(history) < MaxOps
    /\ LET dx == directional(e.distanceX)
           cx == pointerFromEdge(e.x)
           w == _width
           begin == isOpen /\ ~isDragging /\ cx < w
           dragging == isDragging \/ begin
           correction == IF begin THEN dx ELSE dxCorrection
       IN  /\ isDragging' = dragging
           /\ dxCorrection' = correction
           /\ position' = IF dragging /\ cx < w
                          THEN w + didPanTarget(correctedTarget(dx, correction), w)
                          ELSE position
    /\ record("didPan", e)
    /\ UNCHANGED <<type, windowWidth, _width, tweens, onOpenCalls,
                   onCloseCalls>>

\* The reposition-channel decision with the displacement not negated.
didPanEndClosesUnmirrored(dx, vx, w) == vx < -1 * triggerVelocity \/ 2 * dx > w

\* vx < -1 * triggerVelocity || -1 * dx > width / 2
didPanEndCloses(dx, vx, w) == vx < -1 * triggerVelocity \/ 2 * (-1 * dx) > w

\* A didPanEnd that does not test isDragging.
didPanEndUnguarded(e) ==
    /\ Len(history) < MaxOps
    /\ isDragging' = FALSE
    /\ LET dx == directional(e.distanceX)
           vx == directional(e.velocityX)
       IN  tweens' = IF didPanEndCloses(dx, vx, _width)
                     THEN performClose(tweens, nextId)
                     ELSE performOpen(tweens, nextId)
    /\ dxCorrection' = 0
    /\ record("didPanEnd", e)
    /\ UNCHANGED <<type, windowWidth, _width, position, onOpenCalls,
                   onCloseCalls>>

didPanEnd(e) ==
    /\ Len(history) < MaxOps
    /\ IF isDragging
       THEN /\ isDragging' = FALSE
            /\ LET dx == directional(e.distanceX)
                   vx == directional(e.velocityX)
               IN  tweens' = IF didPanEndCloses(dx, vx, _width)
                             THEN performClose(tweens, nextId)
                             ELSE performOpen(tweens, nextId)
            /\ dxCorrection' = 0
       ELSE UNCHANGED <<isDragging, tweens, dxCorrection>>
    /\ record("didPanEnd", e)
    /\ UNCHANGED <<type, windowWidth, _width, position, onOpenCalls,
                   onCloseCalls>>

\* One animation frame: every Tween in flight advances by one frame and
\* writes position, oldest first; a Tween that reaches progress 1 resolves,
\* and the task instance that awaits it, unless cancelled, runs its callback.
\* A Tween that resolves at its first frame.
tweenDoneAtFirstFrame(tw) == tw.k + 1 >= 1

tweenDone(tw) == tw.k + 1 = NumFrames

firedBy(tws, t) ==
    {tws[i].id : i \in {j \in 1..Len(tws) :
        tws[j].task = t /\ tws[j].live /\ tweenDone(tws[j])}}

stillRunning(tw) == tw.k < NumFrames

\* A frame of the twin.
twinFrame(t) ==
    IF t.tweens = <<>> THEN t
    ELSE LET n == Len(t.tweens)
             advanced == [i \in 1..n |-> [t.tweens[i] EXCEPT !.k = @ + 1]]
         IN  [t EXCEPT !.position = tweenValue(t.tweens[n], t.tweens[n].k + 1),
                       !.tweens = SelectSeq(advanced, stillRunning)]

frame ==
    /\ tweens # <<>>
    /\ LET n == Len(tweens)
           writes == [i \in 1..n |->
               [id |-> tweens[i].id, task |-> tweens[i].task,
                value |-> tweenValue(tweens[i], tweens[i].k + 1)]]
           advanced == [i \in 1..n |-> [tweens[i] EXCEPT !.k = @ + 1]]
           opened == firedBy(tweens, "open")
           closed == firedBy(tweens, "close")
       IN  /\ position' = writes[n].value
           /\ tweens' = SelectSeq(advanced, stillRunning)
           /\ onOpenCalls' = onOpenCalls + Cardinality(opened)
           /\ onCloseCalls' = onCloseCalls + Cardinality(closed)
           /\ last' = [op |-> "frame", e |-> NoEvent, wrote |-> writes,
                       fired |-> opened \cup closed]
    /\ twin' = twinFrame(twin)
    /\ UNCHANGED <<type, windowWidth, _width, isDragging, dxCorrection,
                   history>>


\* The viewport is resized.  _width is a computed property that depends on
\* 'width' and 'maxWidth' only, so its cached value is not recomputed;
\* getWindowWidth() returns the new width from now on.
resize(ww) ==
    /\ Len(history) < MaxOps
    /\ ww # windowWidth
    /\ windowWidth' = ww
    /\ record("resize", NoEvent)
    /\ UNCHANGED <<type, _width, position, isDragging, dxCorrection, tweens,
                   onOpenCalls, onCloseCalls>>

Init ==
    /\ type \in {"left", "right"}
    /\ windowWidth \in WindowWidths
    /\ _width = computeWidth(windowWidth)
    /\ position = 0
    /\ isDragging = FALSE
    /\ dxCorrection = 0
    /\ tweens = <<>>
    /\ onOpenCalls = 0
    /\ onCloseCalls = 0
    /\ history = <<>>
    /\ last = [op |-> "init", e |-> NoEvent, wrote |-> <<>>, fired |-> {}]
    /\ twin = [position |-> 0, isDragging |-> FALSE, dxCorrection |-> 0,
               tweens |-> <<>>]

Next ==
    \/ actionsOpen
    \/ actionsClose
    \/ \E e \in PanOpenEvents : panOpen(e)
    \/ \E e \in PanEndEvents : panOpenEnd(e)
    \/ \E e \in DidPanEvents : didPan(e)
    \/ \E e \in PanEndEvents : didPanEnd(e)
    \/ frame

Spec == Init /\ [][Next]_vars

\* The component under a frame clock that keeps ticking while a Tween is in
\* flight, fed a coarser choice of samples.
SettleDistanceXs == {-200, 100}
SettleVelocityXs == {-5, 0, 5}

NextSettle ==
    \/ actionsOpen
    \/ actionsClose
    \/ \E d \in SettleDistanceXs :
           panOpen([distanceX |-> d, velocityX |-> 0, x |-> 0])
    \/ \E d \in SettleDistanceXs, v \in SettleVelocityXs :
           panOpenEnd([distanceX |-> d, velocityX |-> v, x |-> 0])
    \/ \E d \in SettleDistanceXs, px \in PointerXs :
           didPan([distanceX |-> d, velocityX |-> 0, x |-> px])
    \/ \E d \in SettleDistanceXs, v \in SettleVelocityXs :
           didPanEnd([distanceX |-> d, velocityX |-> v, x |-> 0])
    \/ frame

FairSpec == Init /\ [][NextSettle]_vars /\ WF_vars(frame)

\* The component in a viewport that can change.
NextResize ==
    \/ Next
    \/ \E ww \in WindowWidths : resize(ww)

SpecResize == Init /\ [][NextResize]_vars

\* ------------------------------------------------------------ properties
\* The call just made started an animation of task t.
justStarted(t) ==
    \E i \in 1..Len(tweens) :
        /\ tweens[i].id = Len(history)
        /\ tweens[i].task = t
        /\ tweens[i].live
        /\ tweens[i].k = 0

\* C1: with a fixed configuration and viewport width, position and every
\* value an animation frame writes lie in [0, effectiveWidth], whatever the
\* interleaving of gesture callbacks, open()/close() calls and frames.
C1_PositionInRange ==
    /\ 0 <= position
    /\ position <= _width
    /\ \A i \in 1..Len(last.wrote) :
           0 <= last.wrote[i].value /\ last.wrote[i].value <= _width

\* A frame in which two animations wrote during a drag, leaving the drawer
\* strictly between closed and open.
C1_Witness ==
    /\ last.op = "frame"
    /\ Len(last.wrote) >= 2
    /\ isDragging
    /\ 0 < position
    /\ position < _width

\* C2: no reachable state has both the open and the close animation running.
C2_AtMostOneAnimation == ~(openIsRunning /\ closeIsRunning)

\* C3: no reachable state has isDragging = true while an animation runs.
C3_NoDragDuringAnimation == ~(isDragging /\ isTransitioning)

\* C4: right after a call that begins a drag (any panOpen, or a didPan that
\* turns isDragging on) no animation is running.
C4_DragBeginCancelsAnimation ==
    [][(\/ last'.op = "panOpen"
        \/ (last'.op = "didPan" /\ ~isDragging /\ isDragging'))
       => ~isTransitioning']_vars

\* C5: every call that goes into open() or close(), from the open/close
\* actions or from a gesture-end handler, leaves isDragging = false.
C5_PerformClearsDragging ==
    (last.op \in {"open", "close", "panOpenEnd", "didPanEnd"}
        /\ (justStarted("open") \/ justStarted("close")))
    => isDragging = FALSE

\* C6: panOpenEnd sets isDragging = false and starts the open animation
\* exactly when vx > triggerVelocity or dx > effectiveWidth / 2 (vx and dx
\* negated for a right anchor), and otherwise starts the close animation.
C6_OpenChannelDecision ==
    last.op = "panOpenEnd" =>
        LET dx == IF type = "right" THEN 0 - last.e.distanceX
                  ELSE last.e.distanceX
            vx == IF type = "right" THEN 0 - last.e.velocityX
                  ELSE last.e.velocityX
            opens == vx > 3 \/ 2 * dx > _width
        IN  /\ isDragging = FALSE
            /\ opens => justStarted("open") /\ ~justStarted("close")
            /\ ~opens => justStarted("close") /\ ~justStarted("open")

\* The spec's example: width 300, dx = 200, vx = 0 on a left anchor opens.
C6_Witness ==
    /\ last.op = "panOpenEnd"
    /\ type = "left"
    /\ _width = 300
    /\ last.e.distanceX = 200
    /\ last.e.velocityX = 0
    /\ justStarted("open")

\* C7: didPanEnd called while isDragging starts the close animation exactly
\* when vx < -triggerVelocity or -dx > effectiveWidth / 2 (vx and dx negated
\* for a right anchor), and otherwise starts the open animation.
C7_RepositionChannelDecision ==
    [][(last'.op = "didPanEnd" /\ isDragging) =>
        LET dx == IF type = "right" THEN 0 - last'.e.distanceX
                  ELSE last'.e.distanceX
            vx == IF type = "right" THEN 0 - last'.e.velocityX
                  ELSE last'.e.velocityX
            closes == vx < 0 - 3 \/ 2 * (0 - dx) > _width
        IN  /\ closes => justStarted("close")' /\ ~justStarted("open")'
            /\ ~closes => justStarted("open")' /\ ~justStarted("close")']_vars

\* The spec's example: width 300, dx = -200, vx = 0 on a left anchor closes.
C7_Witness ==
    /\ last.op = "didPanEnd"
    /\ type = "left"
    /\ _width = 300
    /\ last.e.distanceX = -200
    /\ last.e.velocityX = 0
    /\ justStarted("close")

\* open() called, then open() called again before the first animation
\* completed, and nothing else.
twoOpens ==
    history = <<[op |-> "open", during |-> FALSE],
                [op |-> "open", during |-> TRUE]>>

\* C8: after open() is called twice, the second time before the first
\* animation has completed, and nothing else is called, onOpen is invoked
\* exactly once and the final position equals effectiveWidth.
C8_RestartIdempotence ==
    twoOpens =>
        /\ onOpenCalls <= 1
        /\ tweens = <<>> => onOpenCalls = 1 /\ position = _width

C8_Witness ==
    /\ twoOpens
    /\ tweens = <<>>
    /\ onOpenCalls = 1
    /\ position = _width

\* C9: an animation that was in flight when a later one was started writes
\* no further position value and its callback is never invoked: in a frame
\* only the youngest animation writes and fires.
C9_SupersededIsSilent ==
    last.op = "frame" =>
        /\ Len(last.wrote) <= 1
        /\ \A id \in last.fired : id = last.wrote[Len(last.wrote)].id

\* C10: onOpen is invoked only by a frame in which an open animation reaches
\* progress 1, onClose only by a frame in which a close animation reaches
\* progress 1; no gesture callback and no open()/close() call invokes them.
C10_CallbacksOnCompletionOnly ==
    [][/\ onOpenCalls' # onOpenCalls =>
            /\ last'.op = "frame"
            /\ \E i \in 1..Len(tweens) :
                   /\ tweens[i].task = "open"
                   /\ tweens[i].k + 1 = NumFrames
                   /\ tweens[i].id \in last'.fired
       /\ onCloseCalls' # onCloseCalls =>
            /\ last'.op = "frame"
            /\ \E i \in 1..Len(tweens) :
                   /\ tweens[i].task = "close"
                   /\ tweens[i].k + 1 = NumFrames
                   /\ tweens[i].id \in last'.fired]_vars

\* The only call so far was not open(), so the open animation that ran to
\* completion and fired onOpen was started by a gesture end.
C10_Witness ==
    /\ Len(history) = 1
    /\ history[1].op # "open"
    /\ last.op = "frame"
    /\ onOpenCalls = 1
    /\ onCloseCalls = 0
\* C11: a didPan that recognizes a drag on the open drawer (isOpen, pointer
\* at cx < effectiveWidth) at directionalized displacement c turns the drag
\* on with dxCorrection = c, and every didPan of a drag whose correction is c,
\* with displacement c - k (0 <= k <= effectiveWidth) and cx <
\* effectiveWidth, writes position = effectiveWidth - k, whatever c is.
C11_CorrectionOffset ==
    [][last'.op = "didPan" =>
        LET dx == IF type = "right" THEN 0 - last'.e.distanceX
                  ELSE last'.e.distanceX
            cx == IF type = "right" THEN windowWidth - last'.e.x
                  ELSE last'.e.x
            k == dxCorrection - dx
        IN  /\ (position = _width /\ ~isDragging /\ cx < _width) =>
                   isDragging' /\ dxCorrection' = dx /\ position' = _width
            /\ (isDragging /\ cx < _width /\ 0 <= k /\ k <= _width) =>
                   position' = _width - k /\ dxCorrection' = dxCorrection]_vars

\* A drag recognized at a displacement other than 0 has moved the drawer by
\* the displacement accumulated since recognition only.
C11_Witness ==
    /\ last.op = "didPan"
    /\ Len(history) >= 2
    /\ isDragging
    /\ dxCorrection # 0
    /\ 0 < position
    /\ position < _width
    /\ position = _width - (dxCorrection -
           (IF type = "right" THEN 0 - last.e.distanceX
            ELSE last.e.distanceX))

\* C12: relativePosition is a number in [0, 1] in every reachable state,
\* also for a configuration whose effectiveWidth is 0.
C12_RelativePositionInUnitInterval ==
    /\ relativePosition.kind = "number"
    /\ 0 <= relativePosition.num
    /\ relativePosition.num <= relativePosition.den

\* C13: in every state the effective width the handlers and animations use
\* is min(width / 100 * viewportWidth, maxWidth) for the current viewport
\* width, and it is >= 0: the width a handler or a frame has just used is
\* the one computed from the viewport width at that time.
C13_WidthFollowsViewport ==
    last.op \notin {"init", "resize"} =>
        /\ _width >= 0
        /\ LET scaled == (85 * windowWidth) \div 100
           IN  _width = IF scaled < 300 THEN scaled ELSE 300

\* The drawer is fully open, not dragging, and the only animations in flight
\* are open animations started in that situation.
restingOpen ==
    /\ isOpen
    /\ \A i \in 1..Len(tweens) :
           /\ tweens[i].task = "open"
           /\ tweens[i].startPos = _width
           /\ tweens[i].diff = 0

\* C14 as stated: open() called when the drawer is fully open and not
\* dragging keeps position = effectiveWidth and isOpen true, and completes
\* immediately, without an animation frame.
C14_OpenWhenOpenCompletesImmediately ==
    [][(last'.op = "open" /\ isOpen /\ tweens = <<>>) =>
        /\ position' = _width
        /\ isOpen'
        /\ ~openIsRunning']_vars

\* C14 amended: open() called when the drawer is fully open, not dragging and
\* no other animation is in flight keeps position = effectiveWidth and isOpen
\* true at every step until the call completes, but it does not complete
\* immediately: an open animation is started and runs all its frames, each
\* writing effectiveWidth, and onOpen is invoked when the last one is done.
C14_OpenWhenOpenHoldsPosition ==
    [][(restingOpen /\ last'.op \in {"open", "frame"}) =>
        /\ restingOpen'
        /\ position' = _width
        /\ last'.op = "open" =>
               /\ justStarted("open")'
               /\ onOpenCalls' = onOpenCalls
        /\ last'.op = "frame" =>
               /\ \A i \in 1..Len(last'.wrote) : last'.wrote[i].value = _width
               /\ onOpenCalls' = onOpenCalls +
                      (IF \E i \in 1..Len(tweens) :
                              tweens[i].live /\ tweens[i].k + 1 = NumFrames
                       THEN 1 ELSE 0)]_vars

\* open() on the closed drawer ran to its end, then open() was called on the
\* open drawer and ran to its end too.
C14_Witness ==
    /\ Len(history) = 2
    /\ history[1] = [op |-> "open", during |-> FALSE]
    /\ history[2] = [op |-> "open", during |-> FALSE]
    /\ last.op = "frame"
    /\ tweens = <<>>
    /\ _width > 0
    /\ position = _width
    /\ onOpenCalls = 2

\* C15: a didPan call arriving when no drag is in progress and the begin
\* condition (isOpen and cx < effectiveWidth) is not met changes nothing; a
\* didPan call with cx >= effectiveWidth leaves position at its last value;
\* didPan changes position only if isDragging is true after its drag-begin
\* detection and cx < effectiveWidth.
C15_DidPanWritesOnlyInsideFootprint ==
    [][last'.op = "didPan" =>
        LET cx == IF type = "right" THEN windowWidth - last'.e.x
                  ELSE last'.e.x
            begins == position = _width /\ ~isDragging /\ cx < _width
        IN  /\ (~isDragging /\ ~begins) =>
                UNCHANGED <<position, isDragging, dxCorrection, tweens,
                            onOpenCalls, onCloseCalls>>
            /\ cx >= _width => position' = position
            /\ position' # position => isDragging' /\ cx < _width
            /\ UNCHANGED <<tweens, onOpenCalls, onCloseCalls>>]_vars

\* During a drag a didPan with the pointer outside the footprint left
\* position where it was, not where the sample would have put it.
C15_Witness ==
    /\ last.op = "didPan"
    /\ isDragging
    /\ (IF type = "right" THEN windowWidth - last.e.x ELSE last.e.x) >= _width
    /\ _width > 0
    /\ position = _width
    /\ (IF type = "right" THEN 0 - last.e.distanceX ELSE last.e.distanceX)
           - dxCorrection < 0

\* C16: didPanEnd called with isDragging = false leaves position, isDragging
\* and dragCorrection unchanged and starts no animation; called with
\* isDragging = true it sets isDragging = false, resets dragCorrection to 0
\* and starts exactly one animation.
C16_DidPanEndActsOnlyWhenDragging ==
    [][last'.op = "didPanEnd" =>
        /\ position' = position
        /\ ~isDragging => UNCHANGED <<isDragging, dxCorrection, tweens>>
        /\ isDragging =>
               /\ isDragging' = FALSE
               /\ dxCorrection' = 0
               /\ Len(tweens') = Len(tweens) + 1
               /\ justStarted("open")' # justStarted("close")'
               /\ \A i \in 1..Len(tweens) : tweens'[i].id = tweens[i].id]_vars

\* After open(), a drag took the drawer below the open position and a
\* didPanEnd ended it and started the close animation.
C16_Witness ==
    /\ last.op = "didPanEnd"
    /\ Len(history) = 3
    /\ history[1].op = "open"
    /\ ~isDragging
    /\ dxCorrection = 0
    /\ 0 < position
    /\ justStarted("close")
    /\ position < _width

\* C17: every panOpen call sets isDragging = true and writes position =
\* min(max(d, 0), effectiveWidth), d being distanceX for a left anchor and
\* -distanceX for a right anchor, whatever dragCorrection and the previous
\* position are; it leaves dragCorrection and the animations alone.
C17_PanOpenWritesClampedDelta ==
    [][last'.op = "panOpen" =>
        LET d == IF type = "right" THEN 0 - last'.e.distanceX
                 ELSE last'.e.distanceX
            lower == IF d > 0 THEN d ELSE 0
        IN  /\ isDragging'
            /\ position' = IF lower < _width THEN lower ELSE _width
            /\ UNCHANGED <<dxCorrection, tweens>>]_vars

\* A panOpen on a right-anchored drawer during a drag that carries a
\* correction, putting the drawer strictly between closed and open.
C17_Witness ==
    /\ last.op = "panOpen"
    /\ type = "right"
    /\ dxCorrection # 0
    /\ isDragging
    /\ 0 < position
    /\ position < _width
    /\ position = 0 - last.e.distanceX

\* C18: an animation started by any call, also while another is in flight,
\* starts from the position at the instant of the call; at progress p = k /
\* NumFrames an open animation writes startPos + (effectiveWidth - startPos)
\* * p and a close animation writes startPos * (1 - p), so that p = 0 gives
\* the position at the call and p = 1 gives effectiveWidth, respectively 0.
C18_SeamlessRedirection ==
    [][/\ (justStarted("open")' \/ justStarted("close")') =>
            LET new == tweens'[Len(tweens')]
            IN  /\ new.startPos = position
                /\ position' = position
                /\ new.task = "open" =>
                       new.startPos + ((_width - new.startPos) * 0)
                           \div NumFrames = position
                /\ new.task = "close" =>
                       (new.startPos * (NumFrames - 0)) \div NumFrames
                           = position
       /\ last'.op = "frame" =>
            \A i \in 1..Len(tweens) :
                LET sp == tweens[i].startPos
                    k == tweens[i].k + 1
                    v == last'.wrote[i].value
                IN  /\ last'.wrote[i].id = tweens[i].id
                    /\ tweens[i].task = "open" =>
                           /\ v = sp + ((_width - sp) * k) \div NumFrames
                           /\ k = NumFrames => v = _width
                    /\ tweens[i].task = "close" =>
                           /\ v = (sp * (NumFrames - k)) \div NumFrames
                           /\ k = NumFrames => v = 0]_vars

\* close() called while an open animation was in flight and half way: the
\* close animation starts from the half-way position, not from the start
\* position of the open animation.
C18_Witness ==
    /\ last.op = "close"
    /\ Len(tweens) = 2
    /\ tweens[1].task = "open"
    /\ tweens[1].k > 0
    /\ tweens[2].task = "close"
    /\ tweens[2].startPos = position
    /\ tweens[2].startPos # tweens[1].startPos
    /\ 0 < position
    /\ position < _width

\* C19: whenever an animation is in flight, under fair frame progress the
\* drawer reaches a state where no animation is in flight and position is
\* the target of the most recently started animation (effectiveWidth for
\* open, 0 for close), whatever animations were started before it; nothing
\* but a new call changes that state.
C19_Settling ==
    tweens # <<>> ~>
        /\ tweens = <<>>
        /\ ~isTransitioning
        /\ last.op = "frame"
        /\ LET youngest == last.wrote[Len(last.wrote)]
           IN  /\ \A i \in 1..Len(last.wrote) : last.wrote[i].id <= youngest.id
               /\ position = IF youngest.task = "open" THEN _width ELSE 0

\* An open animation and then a close animation were started, both ran out
\* in the same last frame and the drawer settled closed.
C19_Witness ==
    /\ tweens = <<>>
    /\ last.op = "frame"
    /\ Len(last.wrote) = 2
    /\ last.wrote[1].task = "open"
    /\ last.wrote[2].task = "close"
    /\ _width > 0
    /\ position = 0

\* C20: a right-anchored drawer fed (-distanceX, -velocityX, viewportWidth -
\* pointerX) passes through the same position, isDragging and dragCorrection
\* values and starts the same animations as a left-anchored drawer with the
\* same configuration fed (distanceX, velocityX, pointerX).
C20_AnchorSymmetry ==
    /\ twin.position = position
    /\ twin.isDragging = isDragging
    /\ twin.dxCorrection = dxCorrection
    /\ twin.tweens = tweens

\* A left-anchored drawer and its right-anchored twin after open(), a drag
\* below the open position and the didPanEnd that ended it.
C20_Witness ==
    /\ type = "left"
    /\ last.op = "didPanEnd"
    /\ Len(history) = 3
    /\ history[1].op = "open"
    /\ last.e.distanceX # 0
    /\ last.e.velocityX # 0
    /\ twin.tweens # <<>>
    /\ 0 < twin.position
    /\ twin.position < _width
    /\ twin.position = position
====
